---- MODULE Spec2Model ----
(***************************************************************************)
(* Paper trading bot (src/bot.py): indicator engine, risk sizer, strategy  *)
(* dispatch, paper account and the backtest loop.                          *)
(*                                                                         *)
(* Python floats are modelled as exact rationals [t |-> "num", n, d] in    *)
(* lowest terms with d > 0 (so -0.0 and 0.0 are the same value, as they    *)
(* compare equal in Python); None is [t |-> "None"]; a raised exception is *)
(* [t |-> "raise", exc |-> <name>].                                        *)
(***************************************************************************)
EXTENDS Integers, Sequences, FiniteSets, TLC

VARIABLES
    positions,   \* PaperAccount.positions: list of Position records
    next_id,     \* PaperAccount._next_id
    ledger,      \* the rows of the CSV file written by PaperAccount._log (ts column left out)
    strategies,  \* PaperTradingBot.strategies
    risk,        \* PaperTradingBot.risk (RiskManager fields)
    issued,      \* Position objects returned by PaperAccount.open to direct callers
    last,        \* the last direct call (operation, arguments) and its outcome
    pc,          \* position of the running backtest call
    data,        \* backtest: the bars passed in
    ctx,         \* backtest: the context dict
    pos,         \* backtest: local pos
    pnls,        \* backtest: local pnls
    i,           \* backtest: index of the outer loop
    s,           \* backtest: index of the inner loop (1-based into strategies)
    sig,         \* backtest: the signal of the last on_data call
    args,        \* pure-function harness: the call
    ret,         \* pure-function harness: its result
    first        \* what a caller kept of a finished run before repeating it on a new bot

vars == <<positions, next_id, ledger, strategies, risk, issued, last,
          pc, data, ctx, pos, pnls, i, s, sig, args, ret, first>>

acctVars == <<positions, next_id, ledger>>

botVars == <<strategies, risk>>

runVars == <<pc, data, ctx, pos, pnls, i, s, sig>>

pureVars == <<args, ret>>

-----------------------------------------------------------------------------
(* Values *)

None == [t |-> "None"]

Raise(exc) == [t |-> "raise", exc |-> exc]

\* a call that returned v
Ok(v) == [t |-> "ok", v |-> v]

\* a call that has not been made yet
Pending == [t |-> "pending"]

IsNone(x) == x.t = "None"

IsNum(x) == x.t = "num"

IsRaise(x) == x.t = "raise"

Abs(x) == IF x < 0 THEN -x ELSE x

RECURSIVE GCD(_, _)
GCD(a, b) == IF b = 0 THEN a ELSE GCD(b, a % b)

\* the rational n/d, d # 0, in lowest terms with a positive denominator
Rat(n, d) ==
    LET g == GCD(Abs(n), Abs(d))
        sgn == IF d < 0 THEN -1 ELSE 1
    IN [t |-> "num", n |-> sgn * (n \div g), d |-> sgn * (d \div g)]

Num(k) == Rat(k, 1)

Add(x, y) == Rat(x.n * y.d + y.n * x.d, x.d * y.d)

Sub(x, y) == Rat(x.n * y.d - y.n * x.d, x.d * y.d)

Mul(x, y) == Rat(x.n * y.n, x.d * y.d)

\* Python's x / y on numbers: ZeroDivisionError when y is zero
Div(x, y) == IF y.n = 0 THEN Raise("ZeroDivisionError") ELSE Rat(x.n * y.d, x.d * y.n)

Less(x, y) == x.n * y.d < y.n * x.d

Greater(x, y) == x.n * y.d > y.n * x.d

\* Python truthiness of a float or None
Truthy(x) == IsNum(x) /\ x.n # 0

Min(a, b) == IF a < b THEN a ELSE b

Max(a, b) == IF a > b THEN a ELSE b

\* Python seq[start:stop] (0-based, negative indices count from the end, clamped)
PySlice(seq, start, stop) ==
    LET len == Len(seq)
        clamp(k) == IF k < 0 THEN Max(len + k, 0) ELSE Min(k, len)
        a == clamp(start)
        b == clamp(stop)
    IN [k \in 1..Max(b - a, 0) |-> seq[a + k]]

\* Python sum(seq): starts from the integer 0
RECURSIVE PySum(_)
PySum(seq) == IF Len(seq) = 0 THEN Num(0) ELSE Add(seq[1], PySum(Tail(seq)))

-----------------------------------------------------------------------------
(* ToolGenerator *)

\* mutant of MovingAverageEntry: the lookback test is off by one
MovingAverageEntry_LateStart(prices, period, idx) ==
    IF idx < period
    THEN None
    ELSE Div(PySum(PySlice(prices, idx + 1 - period, idx + 1)), Num(period))

\* one iteration of the loop body of moving_average, for 0-based index idx
MovingAverageEntry(prices, period, idx) ==
    IF idx + 1 < period
    THEN None
    ELSE Div(PySum(PySlice(prices, idx + 1 - period, idx + 1)), Num(period))

\* ToolGenerator.moving_average: Ok(the list ma), or the exception an entry raised
moving_average(prices, period) ==
    LET ma == [k \in 1..Len(prices) |-> MovingAverageEntry(prices, period, k - 1)]
    IN IF \E k \in 1..Len(prices) : IsRaise(ma[k])
       THEN Raise("ZeroDivisionError")
       ELSE Ok(ma)

-----------------------------------------------------------------------------
(* RiskManager *)

\* RiskManager(): balance 10_000.0, risk_per_trade 0.01, max_positions 3
DefaultBalance == 10000

RiskPerTradePercent == 1

DefaultMaxPositions == 3

RiskManager(max_positions) ==
    [balance |-> Num(DefaultBalance),
     risk_per_trade |-> Rat(RiskPerTradePercent, 100),
     max_positions |-> max_positions]

\* RiskManager.size
RiskManager_size(self, price) ==
    LET usd == Mul(self.balance, self.risk_per_trade)
    IN IF Truthy(price) THEN Div(usd, price) ELSE Num(0)

-----------------------------------------------------------------------------
(* Strategies *)

Signals == {"buy", "exit", "None"}

\* the values backtest stores in ctx["position"]
NoPosition == "None"

\* the defaults of MovingAverageCross.__init__
FastDefault == 5

SlowDefault == 20

\* the base class, whose on_data returns None
Strategy == [name |-> "base"]

\* MovingAverageCross.__init__
MovingAverageCross(fast, slow) == [name |-> "ma_cross", fast |-> fast, slow |-> slow]

\* a user-defined subclass of Strategy, whose on_data may return any signal
CustomStrategy == [name |-> "custom"]

\* mutant of MovingAverageCross_on_data: the comparisons are not strict
MovingAverageCross_on_data_NotStrict(self, idx, c) ==
    LET fast_ma == c.fast_ma[idx + 1]
        slow_ma == c.slow_ma[idx + 1]
        position == c.position
    IN IF IsNone(fast_ma) \/ IsNone(slow_ma) THEN "None"
       ELSE IF ~Less(fast_ma, slow_ma) /\ position = NoPosition THEN "buy"
       ELSE IF ~Less(slow_ma, fast_ma) /\ position = "long" THEN "exit"
       ELSE "None"

\* MovingAverageCross.on_data (idx is 0-based, as in the source)
MovingAverageCross_on_data(self, idx, c) ==
    LET fast_ma == c.fast_ma[idx + 1]
        slow_ma == c.slow_ma[idx + 1]
        position == c.position
    IN IF IsNone(fast_ma) \/ IsNone(slow_ma) THEN "None"
       ELSE IF Less(slow_ma, fast_ma) /\ position = NoPosition THEN "buy"
       ELSE IF Less(fast_ma, slow_ma) /\ position = "long" THEN "exit"
       ELSE "None"

\* the signals strat.on_data(idx, row, ctx) can return, by dynamic dispatch
on_data(strat, idx, c) ==
    CASE strat.name = "ma_cross" -> {MovingAverageCross_on_data(strat, idx, c)}
      [] strat.name = "custom" -> Signals
      [] OTHER -> {"None"}

-----------------------------------------------------------------------------
(* Paper trading account *)

Position(id, symbol, side, entry, qty) ==
    [id |-> id, symbol |-> symbol, side |-> side, entry |-> entry, qty |-> qty]

HeaderRow == [action |-> "action"]

\* PaperAccount._log: the file after the call (the header first when the file is new)
PaperAccount_log(file, action, p, price, pnl) ==
    LET exists == Len(file) > 0
        row == [action |-> action, id |-> p.id, symbol |-> p.symbol, side |-> p.side,
                qty |-> p.qty, price |-> price, pnl |-> pnl]
    IN (IF exists THEN file ELSE <<HeaderRow>>) \o <<row>>

\* the account as the methods below see it
Account == [positions |-> positions, next_id |-> next_id, ledger |-> ledger]

\* PaperAccount.open: the account after the call and the Position returned
PaperAccount_open(self, symbol, side, price, qty) ==
    LET p == Position(self.next_id, symbol, side, price, qty)
    IN [positions |-> Append(self.positions, p),
        next_id |-> self.next_id + 1,
        ledger |-> PaperAccount_log(self.ledger, "OPEN", p, price, Num(0)),
        ret |-> p]

\* list.remove(x): drops the first element equal to x
ListRemove(list, x) ==
    LET k == CHOOSE k \in 1..Len(list) :
                 list[k] = x /\ \A j \in 1..(k - 1) : list[j] # x
    IN [j \in 1..(Len(list) - 1) |-> IF j < k THEN list[j] ELSE list[j + 1]]

Contains(list, x) == \E k \in 1..Len(list) : list[k] = x

\* mutant of PaperAccount_close: the side is not taken into account
PaperAccount_close_IgnoringSide(self, p, price) ==
    LET pnl == Mul(Sub(price, p.entry), p.qty)
    IN IF Contains(self.positions, p)
       THEN [positions |-> ListRemove(self.positions, p),
             next_id |-> self.next_id,
             ledger |-> PaperAccount_log(self.ledger, "CLOSE", p, price, pnl),
             ret |-> pnl]
       ELSE [positions |-> self.positions,
             next_id |-> self.next_id,
             ledger |-> self.ledger,
             ret |-> Raise("ValueError")]

\* mutant of PaperAccount_close: a position that is not open is skipped silently
\* (positions.remove guarded by a membership test), then logged and returned
PaperAccount_close_Lenient(self, p, price) ==
    LET pnl == Mul(Mul(Sub(price, p.entry), p.qty),
                   Num(IF p.side = "long" THEN 1 ELSE -1))
    IN [positions |-> IF Contains(self.positions, p)
                      THEN ListRemove(self.positions, p)
                      ELSE self.positions,
        next_id |-> self.next_id,
        ledger |-> PaperAccount_log(self.ledger, "CLOSE", p, price, pnl),
        ret |-> pnl]

\* PaperAccount.close: the account after the call and the pnl returned, or the
\* ValueError of list.remove, raised before _log is reached
PaperAccount_close(self, p, price) ==
    LET pnl == Mul(Mul(Sub(price, p.entry), p.qty),
                   Num(IF p.side = "long" THEN 1 ELSE -1))
    IN IF Contains(self.positions, p)
       THEN [positions |-> ListRemove(self.positions, p),
             next_id |-> self.next_id,
             ledger |-> PaperAccount_log(self.ledger, "CLOSE", p, price, pnl),
             ret |-> pnl]
       ELSE [positions |-> self.positions,
             next_id |-> self.next_id,
             ledger |-> self.ledger,
             ret |-> Raise("ValueError")]

\* mutant of PaperAccount_kill_switch: the positions are liquidated at their entry
\* price, each with a CLOSE row
RECURSIVE LogCloses(_, _)
LogCloses(file, list) ==
    IF Len(list) = 0 THEN file
    ELSE LogCloses(PaperAccount_log(file, "CLOSE", list[1], list[1].entry, Num(0)),
                   Tail(list))

PaperAccount_kill_switch_Liquidating(self) ==
    [positions |-> <<>>,
     next_id |-> self.next_id,
     ledger |-> LogCloses(self.ledger, self.positions),
     ret |-> None]

\* mutant of PaperAccount_kill_switch: the id counter starts over
PaperAccount_kill_switch_ResettingIds(self) ==
    [positions |-> <<>>, next_id |-> 1, ledger |-> self.ledger, ret |-> None]

\* PaperAccount.kill_switch
PaperAccount_kill_switch(self) ==
    [positions |-> <<>>, next_id |-> self.next_id, ledger |-> self.ledger, ret |-> None]

-----------------------------------------------------------------------------
(* Bounds and input sets *)

MaxOpens == 2        \* direct PaperAccount.open calls per behaviour

MaxBars == 4         \* bars of a backtest input

MaxStrategies == 2   \* registered strategies

MaxMaxPositions == 2 \* largest RiskManager.max_positions configured

MaxLen == 3          \* length of a price series given to moving_average

MaxPeriod == 4       \* largest period given to moving_average

NonPositivePeriods == 3 \* how many periods 0, -1, ... are given to moving_average

SeqsUpTo(S, n) == UNION {[1..k -> S] : k \in 0..n}

\* prices and quantities of direct account calls
Prices == {Num(100), Num(110)}

Qtys == {Num(2)}

Sides == {"long", "short"}

\* bars: a close price, or a row without the close field
Bar(close) == [close |-> close]

BarWithoutClose == [open |-> Num(100)]

HasClose(row) == "close" \in DOMAIN row

RunBars == {Bar(Num(100)), Bar(Num(110)), BarWithoutClose}

StrategyChoices == {Strategy, MovingAverageCross(FastDefault, SlowDefault), CustomStrategy}

-----------------------------------------------------------------------------
(* State after construction *)

\* PaperAccount(): no positions, _next_id 1, no trades.csv yet
InitAccount ==
    /\ positions = <<>>
    /\ next_id = 1
    /\ ledger = <<>>
    /\ issued = <<>>
    /\ last = [op |-> "init"]

\* no backtest call is running
InitNoRun ==
    /\ pc = "idle"
    /\ data = <<>>
    /\ ctx = None
    /\ pos = None
    /\ pnls = <<>>
    /\ i = 0
    /\ s = 0
    /\ sig = "None"
    /\ first = None

InitNoCall ==
    /\ args = [fn |-> "none"]
    /\ ret = Pending

-----------------------------------------------------------------------------
(* Direct calls on the account (no backtest running) *)

Range(f) == {f[k] : k \in DOMAIN f}

SetAccount(r) ==
    /\ positions' = r.positions
    /\ next_id' = r.next_id
    /\ ledger' = r.ledger

\* account.open(symbol, side, price, qty) by a caller that keeps the Position
open(symbol, side, price, qty) ==
    /\ pc = "idle"
    /\ next_id <= MaxOpens
    /\ LET r == PaperAccount_open(Account, symbol, side, price, qty)
       IN /\ SetAccount(r)
          /\ issued' = Append(issued, r.ret)
          /\ last' = [op |-> "open", ret |-> r.ret]
    /\ UNCHANGED <<botVars, runVars, pureVars, first>>

\* account.close(p, price) on any Position the caller was ever given
close(p, price) ==
    /\ pc = "idle"
    /\ LET r == PaperAccount_close(Account, p, price)
       IN /\ SetAccount(r)
          /\ last' = [op |-> "close", pos |-> p, ret |-> r.ret]
    /\ UNCHANGED <<issued, botVars, runVars, pureVars, first>>

\* PaperTradingBot.kill_switch: account.kill_switch() and an alert (printed, no state)
kill_switch ==
    /\ pc = "idle"
    /\ LET r == PaperAccount_kill_switch(Account)
       IN /\ SetAccount(r)
          /\ last' = [op |-> "kill_switch", ret |-> r.ret]
    /\ UNCHANGED <<issued, botVars, runVars, pureVars, first>>

InitAcct ==
    /\ InitAccount
    /\ InitNoRun
    /\ InitNoCall
    /\ strategies = <<MovingAverageCross(FastDefault, SlowDefault)>>
    /\ risk = RiskManager(DefaultMaxPositions)

NextAcct ==
    \/ \E side \in Sides, price \in Prices, qty \in Qtys : open("TEST", side, price, qty)
    \/ \E p \in Range(issued), price \in Prices : close(p, price)
    \/ kill_switch

SpecAcct == InitAcct /\ [][NextAcct]_vars

-----------------------------------------------------------------------------
(* PaperTradingBot: strategy registration and the backtest loop *)

\* the periods backtest passes to moving_average
BacktestFastPeriod == 5

BacktestSlowPeriod == 20

\* PaperTradingBot.add_strategy
add_strategy(strat) ==
    /\ pc = "idle"
    /\ Len(strategies) < MaxStrategies
    /\ strategies' = Append(strategies, strat)
    /\ UNCHANGED <<acctVars, risk, issued, last, runVars, pureVars, first>>

\* PaperTradingBot.remove_strategy
remove_strategy(name) ==
    /\ pc = "idle"
    /\ LET keep(st) == st.name # name
       IN strategies' = SelectSeq(strategies, keep)
    /\ UNCHANGED <<acctVars, risk, issued, last, runVars, pureVars, first>>

\* mutant of backtest: the close of a bar is read only when the loop reaches the
\* bar, so a buy at the first bar is made before a later bar without close fails
backtest_ReadingClosesLazily(d) ==
    /\ pc = "idle"
    /\ data' = d
    /\ IF \E k \in 1..Len(d) : ~HasClose(d[k])
       THEN /\ pc' = "raised"
            /\ IF HasClose(d[1]) /\ strategies # <<>>
               THEN SetAccount(PaperAccount_open(Account, "TEST", "long", d[1].close,
                                                 RiskManager_size(risk, d[1].close)))
               ELSE UNCHANGED acctVars
            /\ UNCHANGED <<ctx, pos, pnls, i, s, sig>>
       ELSE LET closes == [k \in 1..Len(d) |-> d[k].close]
            IN /\ ctx' = [closes |-> closes,
                          fast_ma |-> moving_average(closes, BacktestFastPeriod).v,
                          slow_ma |-> moving_average(closes, BacktestSlowPeriod).v,
                          position |-> NoPosition]
               /\ pos' = None
               /\ pnls' = <<>>
               /\ i' = 0
               /\ s' = 0
               /\ sig' = "None"
               /\ pc' = "bar"
               /\ UNCHANGED acctVars
    /\ UNCHANGED <<botVars, issued, last, pureVars, first>>

\* backtest(d), lines 151-159: closes, ctx, pos and pnls; a row without "close"
\* raises KeyError in the comprehension of line 151 (moving_average cannot raise
\* here: both periods are positive)
backtest(d) ==
    /\ pc = "idle"
    /\ data' = d
    /\ IF \E k \in 1..Len(d) : ~HasClose(d[k])
       THEN /\ pc' = "raised"
            /\ UNCHANGED <<ctx, pos, pnls, i, s, sig>>
       ELSE LET closes == [k \in 1..Len(d) |-> d[k].close]
            IN /\ ctx' = [closes |-> closes,
                          fast_ma |-> moving_average(closes, BacktestFastPeriod).v,
                          slow_ma |-> moving_average(closes, BacktestSlowPeriod).v,
                          position |-> NoPosition]
               /\ pos' = None
               /\ pnls' = <<>>
               /\ i' = 0
               /\ s' = 0
               /\ sig' = "None"
               /\ pc' = "bar"
    /\ UNCHANGED <<acctVars, botVars, issued, last, pureVars, first>>

\* lines 160-161: the next bar, and the position snapshot put into ctx
BeginBar ==
    /\ pc = "bar"
    /\ i < Len(data)
    /\ ctx' = [ctx EXCEPT !.position = IF pos # None THEN "long" ELSE NoPosition]
    /\ s' = 1
    /\ pc' = "strat"
    /\ UNCHANGED <<acctVars, botVars, issued, last, data, pos, pnls, i, sig, pureVars, first>>

\* mutant of BuyBranch: the local pos is not consulted
BuyBranch_IgnoringPos(sg) == sg = "buy" /\ Len(positions) < risk.max_positions

\* mutant of BuyBranch: the count of open positions is not compared with
\* max_positions
BuyBranch_NoCapacityCheck(sg) == sg = "buy" /\ pos = None

\* line 164: the condition under which a signal opens a position
BuyBranch(sg) == sg = "buy" /\ pos = None /\ Len(positions) < risk.max_positions

\* mutant of ExitBranch: the snapshot in the context is consulted, not the local
ExitBranch_OnSnapshot(sg) == sg = "exit" /\ ctx.position = "long"

\* line 168: the condition under which a signal closes the position
ExitBranch(sg) == sg = "exit" /\ pos # None

\* mutant of AppendPnl: the newest pnl is put first
AppendPnl_AtFront(list, pnl) == <<pnl>> \o list

\* line 170: pnls.append(pnl)
AppendPnl(list, pnl) == Append(list, pnl)

\* mutant of EvalStrategy: the pnl of a close is added to the RiskManager balance
EvalStrategy_CompoundingBalance ==
    /\ pc = "strat"
    /\ s <= Len(strategies)
    /\ \E sg \in on_data(strategies[s], i, ctx) :
         LET row == data[i + 1]
         IN /\ sig' = sg
            /\ IF BuyBranch(sg)
               THEN LET qty == RiskManager_size(risk, row.close)
                        r == PaperAccount_open(Account, "TEST", "long", row.close, qty)
                    IN /\ SetAccount(r)
                       /\ pos' = r.ret
                       /\ pc' = "strat"
                       /\ s' = s + 1
                       /\ UNCHANGED <<pnls, risk>>
               ELSE IF ExitBranch(sg)
               THEN LET r == PaperAccount_close(Account, pos, row.close)
                    IN IF IsRaise(r.ret)
                       THEN /\ pc' = "raised"
                            /\ UNCHANGED <<acctVars, pos, pnls, s, risk>>
                       ELSE /\ SetAccount(r)
                            /\ pnls' = AppendPnl(pnls, r.ret)
                            /\ risk' = [risk EXCEPT !.balance = Add(@, r.ret)]
                            /\ pos' = None
                            /\ pc' = "strat"
                            /\ s' = s + 1
               ELSE /\ pc' = "strat"
                    /\ s' = s + 1
                    /\ UNCHANGED <<acctVars, pos, pnls, risk>>
    /\ UNCHANGED <<strategies, issued, last, data, ctx, i, pureVars, first>>

\* lines 162-172: one iteration of the inner loop, for strategies[s] at bar i
EvalStrategy ==
    /\ pc = "strat"
    /\ s <= Len(strategies)
    /\ \E sg \in on_data(strategies[s], i, ctx) :
         LET row == data[i + 1]
         IN /\ sig' = sg
            /\ IF BuyBranch(sg)
               THEN LET qty == RiskManager_size(risk, row.close)
                        r == PaperAccount_open(Account, "TEST", "long", row.close, qty)
                    IN /\ SetAccount(r)
                       /\ pos' = r.ret
                       /\ pc' = "strat"
                       /\ s' = s + 1
                       /\ UNCHANGED pnls
               ELSE IF ExitBranch(sg)
               THEN LET r == PaperAccount_close(Account, pos, row.close)
                    IN IF IsRaise(r.ret)
                       THEN /\ pc' = "raised"
                            /\ UNCHANGED <<acctVars, pos, pnls, s>>
                       ELSE /\ SetAccount(r)
                            /\ pnls' = AppendPnl(pnls, r.ret)
                            /\ pos' = None
                            /\ pc' = "strat"
                            /\ s' = s + 1
               ELSE /\ pc' = "strat"
                    /\ s' = s + 1
                    /\ UNCHANGED <<acctVars, pos, pnls>>
    /\ UNCHANGED <<botVars, issued, last, data, ctx, i, pureVars, first>>

\* mutant of EndBar: the bar index is not advanced
EndBar_NotAdvancing ==
    /\ pc = "strat"
    /\ s > Len(strategies)
    /\ pc' = "bar"
    /\ UNCHANGED <<acctVars, botVars, issued, last, data, ctx, pos, pnls, i, s, sig, pureVars, first>>

\* the inner loop is exhausted: on to the next bar
EndBar ==
    /\ pc = "strat"
    /\ s > Len(strategies)
    /\ i' = i + 1
    /\ pc' = "bar"
    /\ UNCHANGED <<acctVars, botVars, issued, last, data, ctx, pos, pnls, s, sig, pureVars, first>>

\* mutant of Return: a position still open after the last bar is closed at that
\* bar's close
Return_ClosingOpenPosition ==
    /\ pc = "bar"
    /\ i = Len(data)
    /\ pc' = "returned"
    /\ IF pos # None
       THEN LET r == PaperAccount_close(Account, pos, data[i].close)
            IN /\ SetAccount(r)
               /\ pnls' = AppendPnl(pnls, r.ret)
               /\ pos' = None
       ELSE UNCHANGED <<acctVars, pos, pnls>>
    /\ UNCHANGED <<botVars, issued, last, data, ctx, i, s, sig, pureVars, first>>

\* line 173: return pnls
Return ==
    /\ pc = "bar"
    /\ i = Len(data)
    /\ pc' = "returned"
    /\ UNCHANGED <<acctVars, botVars, issued, last, data, ctx, pos, pnls, i, s, sig, pureVars, first>>

\* a bot as constructed, with the RiskManager's max_positions field set
InitRun ==
    /\ InitAccount
    /\ InitNoRun
    /\ InitNoCall
    /\ strategies = <<>>
    /\ risk \in {RiskManager(m) : m \in 1..MaxMaxPositions}

NextRun ==
    \/ \E strat \in StrategyChoices : add_strategy(strat)
    \/ \E name \in {"base", "ma_cross", "custom"} : remove_strategy(name)
    \/ \E d \in SeqsUpTo(RunBars, MaxBars) : backtest(d)
    \/ BeginBar
    \/ EvalStrategy
    \/ EndBar
    \/ Return

SpecRun == InitRun /\ [][NextRun]_vars

\* PaperTradingBot() as constructed: max_positions 3, no strategy registered yet
InitDefaultBot ==
    /\ InitAccount
    /\ InitNoRun
    /\ InitNoCall
    /\ strategies = <<>>
    /\ risk = RiskManager(DefaultMaxPositions)

\* the interpreter keeps executing a running backtest call: each step of the loop
\* that can be taken is taken (on_data calls return)
SpecRunFair ==
    /\ InitDefaultBot
    /\ [][NextRun]_vars
    /\ WF_vars(BeginBar)
    /\ WF_vars(EvalStrategy)
    /\ WF_vars(EndBar)
    /\ WF_vars(Return)

-----------------------------------------------------------------------------
(* The pure functions, called on their own *)

MAPrices == {Num(1), Num(2), Num(5)}

MAValues == {None, Num(1), Num(2)}

ContextPositions == {NoPosition, "long", "short"}

MovingAverageCalls ==
    {[fn |-> "moving_average", prices |-> p, period |-> n] :
        p \in SeqsUpTo(MAPrices, MaxLen), n \in (1 - NonPositivePeriods)..MaxPeriod}

OnDataCalls ==
    {[fn |-> "on_data", idx |-> k, ctx |-> [fast_ma |-> f, slow_ma |-> sl, position |-> q]] :
        k \in 0..1, f \in [1..2 -> MAValues], sl \in [1..2 -> MAValues],
        q \in ContextPositions}

\* prices given to RiskManager.size: negative, zero, None and positive ones
SizePrices == {Num(0 - 100), Rat(0 - 1, 2), Num(0), None, Rat(1, 2), Num(100), Num(110)}

SizeCalls == {[fn |-> "size", price |-> p] : p \in SizePrices}

InitPure ==
    /\ InitAccount
    /\ InitNoRun
    /\ strategies = <<MovingAverageCross(FastDefault, SlowDefault)>>
    /\ risk = RiskManager(DefaultMaxPositions)
    /\ args \in MovingAverageCalls \cup OnDataCalls \cup SizeCalls
    /\ ret = Pending

CallMovingAverage ==
    /\ args.fn = "moving_average"
    /\ ret = Pending
    /\ ret' = moving_average(args.prices, args.period)
    /\ UNCHANGED <<acctVars, botVars, issued, last, runVars, args, first>>

CallOnData ==
    /\ args.fn = "on_data"
    /\ ret = Pending
    /\ ret' = Ok(MovingAverageCross_on_data(strategies[1], args.idx, args.ctx))
    /\ UNCHANGED <<acctVars, botVars, issued, last, runVars, args, first>>

\* RiskManager().size(price)
CallSize ==
    /\ args.fn = "size"
    /\ ret = Pending
    /\ ret' = Ok(RiskManager_size(risk, args.price))
    /\ UNCHANGED <<acctVars, botVars, issued, last, runVars, args, first>>

NextPure ==
    \/ CallMovingAverage
    \/ CallOnData
    \/ CallSize

SpecPure == InitPure /\ [][NextPure]_vars

-----------------------------------------------------------------------------
(* End to end: main()'s bot on a 30-bar series that rises, then falls *)

\* closes (bars 0-based) rising from b at bar 0 by u1 a bar up to bar 10 and by u2
\* a bar up to bar 19, then falling: bar 20 is g below bar 19, and each later bar
\* is d1 lower (up to bar 25) or d2 lower (up to bar 29)
RiseFall(b, u1, u2, g, d1, d2) ==
    [k \in 1..30 |->
        LET j == k - 1
            top == b + 10 * u1 + 9 * u2
        IN Bar(Num(IF j <= 10 THEN b + j * u1
                   ELSE IF j <= 19 THEN b + 10 * u1 + (j - 10) * u2
                   ELSE IF j <= 25 THEN top - g - (j - 20) * d1
                   ELSE top - g - 5 * d1 - (j - 25) * d2))]

RiseFallSeries ==
    {RiseFall(b, u1, u2, g, d1, d2) :
        b \in {100, 200}, u1 \in {1, 3}, u2 \in {1, 3}, g \in {1, 5},
        d1 \in {1, 8}, d2 \in {1, 8}}

\* main(): PaperTradingBot() and add_strategy(MovingAverageCross())
InitMain ==
    /\ InitAccount
    /\ InitNoRun
    /\ InitNoCall
    /\ strategies = <<MovingAverageCross(FastDefault, SlowDefault)>>
    /\ risk = RiskManager(DefaultMaxPositions)

NextRiseFall ==
    \/ \E d \in RiseFallSeries : backtest(d)
    \/ BeginBar
    \/ EvalStrategy
    \/ EndBar
    \/ Return

SpecRiseFall == InitMain /\ [][NextRiseFall]_vars

-----------------------------------------------------------------------------
(* One bot over its life: backtest runs, and direct account calls between them *)

\* the backtest call is over (returned, or raised to the caller): its locals are
\* gone, the bot and its account stay as the call left them
Finish ==
    /\ pc \in {"returned", "raised"}
    /\ pc' = "idle"
    /\ data' = <<>>
    /\ ctx' = None
    /\ pos' = None
    /\ pnls' = <<>>
    /\ i' = 0
    /\ s' = 0
    /\ sig' = "None"
    /\ UNCHANGED <<acctVars, botVars, issued, last, pureVars, first>>

BotBars == SeqsUpTo({Bar(Num(100))}, 2)

\* a bot with one strategy that may give any signal
InitBot ==
    /\ InitAccount
    /\ InitNoRun
    /\ InitNoCall
    /\ strategies = <<CustomStrategy>>
    /\ risk \in {RiskManager(m) : m \in 1..MaxMaxPositions}

NextBot ==
    \/ \E d \in BotBars : next_id <= MaxOpens /\ backtest(d)
    \/ BeginBar
    \/ EvalStrategy
    \/ EndBar
    \/ Return
    \/ Finish
    \/ open("TEST", "long", Num(100), Num(2))
    \/ \E p \in Range(issued) \cup Range(positions) : close(p, Num(110))
    \/ kill_switch

SpecBot == InitBot /\ [][NextBot]_vars

-----------------------------------------------------------------------------
(* A bot with one MovingAverageCross strategy constructed with its own periods *)

PeriodChoices ==
    {<<f, sl>> : f \in {1, 2, FastDefault}, sl \in {2, 3, SlowDefault}}

\* PaperTradingBot() and add_strategy(MovingAverageCross(fast, slow))
InitPeriods ==
    /\ InitAccount
    /\ InitNoRun
    /\ InitNoCall
    /\ strategies \in {<<MovingAverageCross(q[1], q[2])>> : q \in PeriodChoices}
    /\ risk = RiskManager(DefaultMaxPositions)

NextPeriods ==
    \/ \E d \in SeqsUpTo({Bar(Num(100)), Bar(Num(110))}, MaxBars) : backtest(d)
    \/ BeginBar
    \/ EvalStrategy
    \/ EndBar
    \/ Return

SpecPeriods == InitPeriods /\ [][NextPeriods]_vars

-----------------------------------------------------------------------------
(* The same backtest twice, each on a new bot *)

\* mutant of NewBot: the id counter is shared by all accounts
NewBot_SharingIdCounter ==
    /\ pc = "returned"
    /\ first = None
    /\ first' = [data |-> data, pnls |-> pnls, ledger |-> ledger]
    /\ positions' = <<>>
    /\ risk' = RiskManager(DefaultMaxPositions)
    /\ pc' = "idle"
    /\ data' = <<>>
    /\ ctx' = None
    /\ pos' = None
    /\ pnls' = <<>>
    /\ i' = 0
    /\ s' = 0
    /\ sig' = "None"
    /\ UNCHANGED <<next_id, ledger, strategies, issued, last, pureVars>>

\* the caller keeps the returned pnls and what trades.csv holds, then makes a new
\* PaperTradingBot() (lines 128-131: a new RiskManager and a new PaperAccount with
\* no positions and _next_id 1; trades.csv stays on disk) and registers the same
\* strategies
NewBot ==
    /\ pc = "returned"
    /\ first = None
    /\ first' = [data |-> data, pnls |-> pnls, ledger |-> ledger]
    /\ positions' = <<>>
    /\ next_id' = 1
    /\ risk' = RiskManager(DefaultMaxPositions)
    /\ pc' = "idle"
    /\ data' = <<>>
    /\ ctx' = None
    /\ pos' = None
    /\ pnls' = <<>>
    /\ i' = 0
    /\ s' = 0
    /\ sig' = "None"
    /\ UNCHANGED <<ledger, strategies, issued, last, pureVars>>

NextTwice ==
    \/ \E d \in RiseFallSeries : (first # None => d = first.data) /\ backtest(d)
    \/ BeginBar
    \/ EvalStrategy
    \/ EndBar
    \/ Return
    \/ NewBot

SpecTwice == InitMain /\ [][NextTwice]_vars

-----------------------------------------------------------------------------
(* Claims about one backtest run on a fresh bot (SpecRun) *)

\* the rows _log wrote for the given action, in file order
Rows(file, action) ==
    LET is(row) == row.action = action
    IN SelectSeq(file, is)

\* the rows of a file that are trade entries (the header row left out)
Entries(file) ==
    LET isEntry(row) == row # HeaderRow
    IN SelectSeq(file, isEntry)

Running == pc \in {"bar", "strat", "returned"}

\* C1: during a backtest run that starts from an account without open positions,
\* whatever the bars, the registered strategies and their signals, and whatever
\* max_positions >= 1 is, the open set never holds more than one position.
C1_AtMostOneOpen == Len(positions) <= 1

\* C1 witness: a buy signal arrives while the position opened at an earlier bar is
\* still held and max_positions would allow another one; nothing was opened.
C1_Witness ==
    /\ pc = "strat"
    /\ s >= 2
    /\ sig = "buy"
    /\ ctx.position = "long"
    /\ pos # None
    /\ risk.max_positions >= 2
    /\ Len(positions) = 1
    /\ Len(Rows(ledger, "OPEN")) = 1

\* C3: the pnls of a run are the values returned by its account.close calls (the
\* pnl column of the CLOSE rows it logged), one per call and in the same order.
C3_PnlsAreTheCloses ==
    Running =>
        LET closes == Rows(ledger, "CLOSE")
        IN /\ Len(pnls) = Len(closes)
           /\ \A k \in 1..Len(pnls) : pnls[k] = closes[k].pnl

\* C3 witness: a run returned two different pnls, each of a position held across
\* bars, and its last bar began without a position and ended with an exit signal,
\* which found nothing to close.
C3_Witness ==
    /\ pc = "returned"
    /\ Len(pnls) = 2
    /\ pnls[1] # pnls[2]
    /\ pnls[1] # Num(0)
    /\ pnls[2] # Num(0)
    /\ sig = "exit"
    /\ pos = None
    /\ ctx.position = NoPosition

-----------------------------------------------------------------------------
(* Claims about direct calls on one account (SpecAcct) *)

Last(seq) == seq[Len(seq)]

\* the pnl section 4.4 prescribes: (price - entry) * quantity, negated unless long
SpecifiedPnl(p, price) ==
    LET gain == Mul(Sub(price, p.entry), p.qty)
    IN IF p.side = "long" THEN gain ELSE Sub(Num(0), gain)

\* C4: a close that succeeds returns (price - entry) * quantity for a long position
\* and the negation of that for any other side: 20 and -20 for entry 100,
\* quantity 2 and exit 110.
C4_ClosePnl ==
    (last.op = "close" /\ IsNum(last.ret)) =>
        LET p == last.pos
            price == Last(ledger).price
        IN /\ last.ret = SpecifiedPnl(p, price)
           /\ (p.entry = Num(100) /\ p.qty = Num(2) /\ price = Num(110)) =>
                 last.ret = (IF p.side = "long" THEN Num(20) ELSE Num(-20))

\* C4 witness: the short position of the example was closed at 110.
C4_Witness ==
    /\ last.op = "close"
    /\ IsNum(last.ret)
    /\ last.pos.side = "short"
    /\ last.pos.entry = Num(100)
    /\ last.pos.qty = Num(2)
    /\ Last(ledger).price = Num(110)
    /\ last.ret = Num(-20)

\* C5: close on a position that is not in the open set raises instead of returning
\* a pnl and leaves the open set, the id counter and the ledger as they were; so
\* no position is closed twice.
C5_CloseOfNotOpenFails ==
    /\ [][(last'.op = "close" /\ ~Contains(positions, last'.pos)) =>
            /\ IsRaise(last'.ret)
            /\ positions' = positions
            /\ next_id' = next_id
            /\ ledger' = ledger]_vars
    /\ [](\A j, k \in 1..Len(Rows(ledger, "CLOSE")) :
            Rows(ledger, "CLOSE")[j].id = Rows(ledger, "CLOSE")[k].id => j = k)

\* C5 witness: a close failed on a position abandoned by kill_switch (it was never
\* closed), while another position was open.
C5_Witness ==
    /\ last.op = "close"
    /\ IsRaise(last.ret)
    /\ Len(positions) = 1
    /\ Rows(ledger, "CLOSE") = <<>>
    /\ Len(Rows(ledger, "OPEN")) = 2

\* C6: kill_switch empties the open set, appends nothing to the ledger and
\* computes no pnl.
C6_KillSwitchFrame ==
    [][last'.op = "kill_switch" =>
         /\ positions' = <<>>
         /\ ledger' = ledger
         /\ next_id' = next_id
         /\ last'.ret = None]_vars

\* C6 witness: kill_switch has just cleared an account that held two positions; the
\* ledger holds their two OPEN rows and no CLOSE row.
C6_Witness ==
    /\ last.op = "kill_switch"
    /\ positions = <<>>
    /\ Len(Rows(ledger, "OPEN")) = 2
    /\ Rows(ledger, "CLOSE") = <<>>
    /\ Len(ledger) = 3

\* C7: ids grow strictly in creation order, so no two positions ever created (and
\* no two open ones) share an id, and no call lowers the id counter.
C7_IdsIncrease ==
    /\ [](\A j, k \in 1..Len(issued) : j < k => issued[j].id < issued[k].id)
    /\ [](\A j, k \in 1..Len(positions) : j # k => positions[j].id # positions[k].id)
    /\ [][next_id' >= next_id]_vars

\* C7 witness: a position was opened after kill_switch abandoned an earlier one,
\* and has the larger id.
C7_Witness ==
    /\ last.op = "open"
    /\ Len(issued) = 2
    /\ Len(positions) = 1
    /\ Rows(ledger, "CLOSE") = <<>>
    /\ positions[1].id > issued[1].id

\* C12: when some bar of the input lacks the close field, at whatever index, the
\* backtest call fails without running the loop, and at the failure the open set,
\* the id counter and the ledger are as they were at the call (those of the fresh
\* account).
C12_MissingCloseFailsBeforeMutation ==
    (pc # "idle" /\ \E k \in 1..Len(data) : ~HasClose(data[k])) =>
        /\ pc = "raised"
        /\ positions = <<>>
        /\ next_id = 1
        /\ ledger = <<>>
        /\ pnls = <<>>

\* C12 witness: the call failed on an input whose first two bars have a close and
\* whose third has none, with a strategy registered that may buy at the first bar.
C12_Witness ==
    /\ pc = "raised"
    /\ Len(data) = 3
    /\ HasClose(data[1])
    /\ HasClose(data[2])
    /\ ~HasClose(data[3])
    /\ strategies = <<CustomStrategy>>
    /\ positions = <<>>
    /\ ledger = <<>>

\* C14: a backtest on bars that all have a close starts at bar 0, visits bar i only
\* while i is below the number of bars, moves from one bar to the next by adding
\* exactly one to the index after the strategies were evaluated, returns only when
\* the index is the number of bars, and a call in its loop eventually returns.
C14_BarsInOrderThenReturn ==
    /\ [][/\ (pc = "idle" /\ pc' = "bar") => i' = 0
          /\ (pc = "bar" /\ pc' = "strat") => (i' = i /\ i < Len(data) /\ s' = 1)
          /\ (pc = "strat" /\ pc' = "bar") => (i' = i + 1 /\ s > Len(strategies))
          /\ (pc = "strat" /\ pc' = "strat") => (i' = i /\ s' = s + 1 /\ s <= Len(strategies))
          /\ (pc = "bar" /\ pc' # "strat") => (pc' = "returned" /\ i = Len(data) /\ i' = i)
          /\ pc \in {"bar", "strat"} => data' = data]_vars
    /\ (pc \in {"bar", "strat"}) ~> (pc = "returned")

\* C14 witness: a run over three bars with two strategies returned, the index at
\* three.
C14_Witness ==
    /\ pc = "returned"
    /\ Len(data) = 3
    /\ Len(strategies) = 2
    /\ i = 3

\* C15, as claimed: once an open or a close has happened in a bar, no later
\* strategy's signal for that bar opens or closes. ctx.position is the snapshot
\* taken when the bar began, so the local pos disagreeing with it means that an
\* open or a close has already happened in this bar.
C15_AtMostOneMutationPerBar ==
    [][(pc = "strat" /\ ((ctx.position = NoPosition) # (pos = None)))
           => UNCHANGED acctVars]_vars

\* C15, amended: the account changes only in the evaluation of one strategy's
\* signal, and one evaluation makes at most one entry, at the bar's close: an OPEN
\* on buy when the loop holds no position, a CLOSE on exit when it holds one,
\* whatever already happened in the bar; so a bar has at most one open or close
\* per registered strategy.
C15_AtMostOneMutationPerEvaluation ==
    [][(positions' # positions \/ next_id' # next_id \/ ledger' # ledger) =>
           /\ pc = "strat"
           /\ s <= Len(strategies)
           /\ s' = s + 1
           /\ i' = i
           /\ Len(Entries(ledger')) = Len(Entries(ledger)) + 1
           /\ Last(ledger').price = data[i + 1].close
           /\ IF pos = None
              THEN sig' = "buy" /\ Last(ledger').action = "OPEN" /\ pos' # None
              ELSE sig' = "exit" /\ Last(ledger').action = "CLOSE" /\ pos' = None]_vars

\* C15 witness: in the first bar the first strategy's buy opened a position and
\* the second strategy's exit closed it, at the same price.
C15_Witness ==
    /\ pc = "strat"
    /\ i = 0
    /\ s = 3
    /\ Len(strategies) = 2
    /\ Len(Rows(ledger, "OPEN")) = 1
    /\ Len(Rows(ledger, "CLOSE")) = 1
    /\ pnls = <<Num(0)>>
    /\ pos = None
    /\ ctx.position = NoPosition

\* C18: no step of a bot changes the RiskManager's balance, risk_per_trade or
\* max_positions, whatever was opened and closed with whatever pnl, and every buy of
\* a run is sized from the same amount: quantity times price of each OPEN entry is
\* the starting balance times risk_per_trade.
C18_RiskManagerUnchanged ==
    /\ [][risk' = risk]_vars
    /\ [](/\ risk.balance = Num(DefaultBalance)
          /\ risk.risk_per_trade = Rat(RiskPerTradePercent, 100)
          /\ \A k \in 1..Len(ledger) :
                ledger[k].action = "OPEN" =>
                    Mul(ledger[k].qty, ledger[k].price) = Mul(risk.balance, risk.risk_per_trade))

\* C18 witness: a run returned after a winning close, a losing close and a third
\* buy.
C18_Witness ==
    /\ pc = "returned"
    /\ Len(pnls) = 2
    /\ Greater(pnls[1], Num(0))
    /\ Less(pnls[2], Num(0))
    /\ Len(Rows(ledger, "OPEN")) = 3
    /\ Len(positions) = 1

\* C19: during a run that alone mutates the account, the open set holds exactly
\* the position the loop's local pos refers to, and nothing when pos is None; so a
\* close by the loop is always of an open position, and the only failure of a run
\* is that of an input bar without close, never the ValueError of close.
C19_LocalPosIsTheOpenPosition ==
    /\ Running => positions = (IF pos = None THEN <<>> ELSE <<pos>>)
    /\ pc = "raised" => /\ \E k \in 1..Len(data) : ~HasClose(data[k])
                        /\ pos = None
                        /\ positions = <<>>

\* C19 witness: at a bar that began with the position open, an exit has just
\* closed it: pos is None again and the open set is empty.
C19_Witness ==
    /\ pc = "strat"
    /\ sig = "exit"
    /\ ctx.position = "long"
    /\ pos = None
    /\ positions = <<>>
    /\ Len(pnls) = 1
    /\ Last(ledger).action = "CLOSE"

\* C20: the entries a run appends alternate OPEN, CLOSE, OPEN, ..., the first being
\* an OPEN; each CLOSE has the id of the OPEN just before it and is written with
\* the close of the bar whose exit signal caused it; there are as many OPEN as
\* CLOSE entries, or one more, and one more exactly while the loop holds a
\* position; returning appends nothing, so a position held after the last bar
\* stays open and the run returns with one OPEN more than CLOSE.
C20_LedgerAlternates ==
    /\ [](Running =>
            LET E == Entries(ledger)
                opens == Len(Rows(ledger, "OPEN"))
                closes == Len(Rows(ledger, "CLOSE"))
            IN /\ \A k \in 1..Len(E) :
                    IF k % 2 = 1
                    THEN E[k].action = "OPEN"
                    ELSE E[k].action = "CLOSE" /\ E[k].id = E[k - 1].id
               /\ opens - closes \in {0, 1}
               /\ opens - closes = 1 <=> pos # None
               /\ opens - closes = Len(positions))
    /\ [][/\ (Len(Rows(ledger', "CLOSE")) > Len(Rows(ledger, "CLOSE"))) =>
                /\ sig' = "exit"
                /\ Last(ledger').action = "CLOSE"
                /\ Last(ledger').price = data[i + 1].close
                /\ i' = i
          /\ pc' = "returned" => ledger' = ledger /\ positions' = positions]_vars

\* C20 witness: a run returned with OPEN, CLOSE, OPEN in the ledger and the
\* position of the second OPEN still open.
C20_Witness ==
    /\ pc = "returned"
    /\ Len(Entries(ledger)) = 3
    /\ Entries(ledger)[3].action = "OPEN"
    /\ Entries(ledger)[2].id = 1
    /\ positions = <<pos>>
    /\ pos.id = 2

-----------------------------------------------------------------------------
(* Claims about the pure functions (SpecPure) *)

Called(fn) == args.fn = fn /\ ret.t # "pending"

\* C8: on_data at bar idx gives none when either average is undefined there, buy
\* when fast > slow and the context shows no position, exit when fast < slow and
\* the context shows a long position, and none otherwise (ties included); so never
\* buy while a position is shown and never exit while none is.
C8_DecisionRule ==
    Called("on_data") =>
        LET fast == args.ctx.fast_ma[args.idx + 1]
            slow == args.ctx.slow_ma[args.idx + 1]
            shown == args.ctx.position
            defined == IsNum(fast) /\ IsNum(slow)
        IN /\ ret.t = "ok"
           /\ ret.v \in Signals
           /\ ~defined => ret.v = "None"
           /\ ret.v = "buy" <=> (defined /\ Greater(fast, slow) /\ shown = NoPosition)
           /\ ret.v = "exit" <=> (defined /\ Greater(slow, fast) /\ shown = "long")
           /\ (defined /\ fast = slow) => ret.v = "None"
           /\ shown # NoPosition => ret.v # "buy"
           /\ shown = NoPosition => ret.v # "exit"

\* C8 witness: the averages tie at the bar asked about (and differ at the other
\* bar), no position is shown, and the answer is none.
C8_Witness ==
    /\ Called("on_data")
    /\ args.idx = 1
    /\ args.ctx.fast_ma = <<Num(2), Num(1)>>
    /\ args.ctx.slow_ma = <<Num(1), Num(1)>>
    /\ args.ctx.position = NoPosition
    /\ ret = Ok("None")

\* the sum of seq[a..b] (1-based, inclusive)
RECURSIVE WindowSum(_, _, _)
WindowSum(seq, a, b) == IF a > b THEN Num(0) ELSE Add(WindowSum(seq, a, b - 1), seq[b])

\* C9: for a period p >= 1 the result is as long as the series, entry i (0-based) is
\* undefined exactly when i + 1 < p, and p times a defined entry is the sum of the
\* p prices ending at i; so a period beyond the length gives no defined entry.
C9_TrailingMean ==
    (Called("moving_average") /\ args.period >= 1) =>
        LET S == args.prices
            p == args.period
        IN /\ ret.t = "ok"
           /\ Len(ret.v) = Len(S)
           /\ \A k \in 1..Len(S) :
                /\ IsNone(ret.v[k]) <=> k < p
                /\ k >= p => /\ IsNum(ret.v[k])
                             /\ Mul(ret.v[k], Num(p)) = WindowSum(S, k + 1 - p, k)
           /\ p > Len(S) => \A k \in 1..Len(S) : IsNone(ret.v[k])

\* C9 witness: period 2 on the series 1, 2, 5 gave undefined, 3/2, 7/2.
C9_Witness ==
    /\ Called("moving_average")
    /\ args.prices = <<Num(1), Num(2), Num(5)>>
    /\ args.period = 2
    /\ ret = Ok(<<None, Rat(3, 2), Rat(7, 2)>>)

\* C10, as claimed: a period <= 0 on a non-empty series does not fail and gives a
\* series of the same length whose entries are all undefined.
C10_NonPositivePeriodAllUndefined ==
    (Called("moving_average") /\ args.period <= 0 /\ Len(args.prices) > 0) =>
        /\ ret.t = "ok"
        /\ Len(ret.v) = Len(args.prices)
        /\ \A k \in 1..Len(args.prices) : IsNone(ret.v[k])

\* C11, as claimed: size returns 0 for every price <= 0 and for an undefined price,
\* balance * risk_per_trade / price for every price > 0, and never a negative
\* quantity.
C11_SizeZeroUnlessPositivePrice ==
    Called("size") =>
        LET price == args.price
            usd == Mul(risk.balance, risk.risk_per_trade)
        IN /\ ret.t = "ok"
           /\ IsNum(ret.v)
           /\ (IsNone(price) \/ ~Greater(price, Num(0))) => ret.v = Num(0)
           /\ (IsNum(price) /\ Greater(price, Num(0))) => Mul(ret.v, price) = usd
           /\ ~Less(ret.v, Num(0))

-----------------------------------------------------------------------------
(* Claims about one bot over several runs and direct calls (SpecBot) *)

\* C17, as claimed: whatever backtest runs and direct open, close and kill_switch
\* calls were made on a bot, its open set holds at most max_positions positions.
C17_OpenSetWithinMaxPositions == Len(positions) <= risk.max_positions

\* C17, amended: a backtest opens a position only while the open set holds fewer
\* than max_positions, so an open made by a backtest leaves at most max_positions
\* open, and as long as no direct open call was made the open set holds at most
\* max_positions, over any runs, close and kill_switch calls.
C17_BacktestOpensWithinMaxPositions ==
    /\ [](issued = <<>> => Len(positions) <= risk.max_positions)
    /\ [][(pc = "strat" /\ Len(positions') > Len(positions)) =>
              /\ Len(positions) < risk.max_positions
              /\ Len(positions') = Len(positions) + 1]_vars

\* C17 witness: with max_positions 2 and no direct open call, a second run opened
\* a position while the one the first run left open was still there.
C17_Witness ==
    /\ pc = "strat"
    /\ issued = <<>>
    /\ risk.max_positions = 2
    /\ Len(positions) = 2
    /\ pos = positions[2]
    /\ Len(Rows(ledger, "CLOSE")) = 0

-----------------------------------------------------------------------------
(* Claims about a strategy with its own periods (SpecPeriods) *)

\* C16, as claimed: the signal MovingAverageCross(f, s) gave at bar i is the
\* decision rule applied to moving_average(closes, f) and moving_average(closes, s)
\* at i and to the position shown in the context, whatever f and s are.
C16_DecidesOnOwnPeriods ==
    (pc = "strat" /\ s = 2) =>
        LET self == strategies[1]
            own == [fast_ma |-> moving_average(ctx.closes, self.fast).v,
                    slow_ma |-> moving_average(ctx.closes, self.slow).v,
                    position |-> ctx.position]
        IN sig = MovingAverageCross_on_data(self, i, own)

-----------------------------------------------------------------------------
(* Claims about the repeated run (SpecTwice) *)

\* C13: a backtest on the same bars with the same registered strategies, run a
\* second time on a new bot and account, returns the same pnl sequence as the first
\* run and appends the same ledger entries (action, id, symbol, side, qty, price,
\* pnl; the timestamp is not part of the modelled row) in the same order.
C13_SecondRunRepeatsFirst ==
    (pc = "returned" /\ first # None) =>
        /\ data = first.data
        /\ pnls = first.pnls
        /\ Entries(SubSeq(ledger, Len(first.ledger) + 1, Len(ledger))) = Entries(first.ledger)

\* C13 witness: the second run returned after a buy and an exit, as the first did.
C13_Witness ==
    /\ pc = "returned"
    /\ first # None
    /\ Len(first.pnls) = 1
    /\ Len(pnls) = 1
    /\ Len(Rows(ledger, "OPEN")) = 2
    /\ Len(Rows(ledger, "CLOSE")) = 2
    /\ Len(Rows(ledger, "action")) = 1

-----------------------------------------------------------------------------
(* Claims about the rise-then-fall run (SpecRiseFall) *)

\* the 0-based bars from lo to hi at which both averages are defined and Cmp holds
\* of the fast and the slow one
CrossBars(lo, hi, Cmp(_, _)) ==
    {k \in lo..hi : /\ IsNum(ctx.fast_ma[k + 1])
                    /\ IsNum(ctx.slow_ma[k + 1])
                    /\ Cmp(ctx.fast_ma[k + 1], ctx.slow_ma[k + 1])}

First(S) == CHOOSE k \in S : \A j \in S : k <= j

\* C2, as claimed: on 30 closes that rise strictly over bars 0-19 and fall strictly
\* over bars 20-29, the run makes exactly one buy and exactly one exit and returns
\* one pnl, which is positive.
C2_OneBuyOneExitPositivePnl ==
    pc = "returned" =>
        /\ Len(Rows(ledger, "OPEN")) = 1
        /\ Len(Rows(ledger, "CLOSE")) = 1
        /\ Len(pnls) = 1
        /\ Greater(pnls[1], Num(0))

\* C2, amended: the run makes exactly one buy, at bar 19 (the first bar where both
\* averages are defined and fast > slow), and at most one exit, at the first later
\* bar where fast < slow if there is one; it returns one pnl per exit, and that pnl
\* is negative.
C2_OneBuyAtMostOneExitNegativePnl ==
    pc = "returned" =>
        LET opens == Rows(ledger, "OPEN")
            closes == Rows(ledger, "CLOSE")
            falls == CrossBars(20, 29, Less)
        IN /\ Len(opens) = 1
           /\ First(CrossBars(0, 29, Greater)) = 19
           /\ opens[1].price = ctx.closes[20]
           /\ Len(closes) = (IF falls = {} THEN 0 ELSE 1)
           /\ Len(pnls) = Len(closes)
           /\ falls # {} => /\ closes[1].price = ctx.closes[First(falls) + 1]
                            /\ closes[1].id = opens[1].id
                            /\ pnls[1] = closes[1].pnl
                            /\ Less(pnls[1], Num(0))

\* C2 witness: a run returned after its one buy and one exit, with a loss.
C2_Witness ==
    /\ pc = "returned"
    /\ Len(Rows(ledger, "OPEN")) = 1
    /\ Len(Rows(ledger, "CLOSE")) = 1
    /\ Len(pnls) = 1
    /\ Less(pnls[1], Num(0))
    /\ positions = <<>>

====
